---- MODULE Spec2Model ----
(***************************************************************************)
(* A model of osm-overwatch: the OSM entity model (src/src/osm.py), the    *)
(* augmented-diff decoder (src/src/adiff.py), the change filters           *)
(* (src/src/filters.py), the per-container alert aggregation               *)
(* (src/src/fetch_changes.py) and the two drivers of the diff stream.      *)
(*                                                                         *)
(* Python values are modelled as follows.  An optional value is a tuple:   *)
(* <<>> is None (or a missing XML attribute) and <<x>> is the value x.     *)
(* A call's outcome is a record: [ok |-> TRUE, val |-> v] when it returns  *)
(* v and [ok |-> FALSE, err |-> e] when it raises the exception e.         *)
(* Every Python object carries an `oid`, the place of its allocation:      *)
(* classes without __eq__ compare by it.  Coordinates are integers in      *)
(* microdegrees.                                                           *)
(***************************************************************************)
EXTENDS Integers, Sequences, FiniteSets, TLC

VARIABLES
    pc,         \* position of the process of the specification at hand
    doc,        \* the <action> children of the document being decoded
    container,  \* outcome of ChangeContainer.from_element
    elem,       \* an OSM primitive element handed to OSMObject.from_element
    obj,        \* outcome of OSMObject.from_element(elem)
    geo,        \* outcome of obj.__geo_interface__
    filt,       \* the filter instance under evaluation
    change,     \* the Action last passed to filt.matches
    ret,        \* outcome of that matches() call
    user_ids,   \* NewUserFilter.user_ids of the instance
    prev_ids,   \* user_ids as it was before the last matches() call
    hits,       \* the uid of each NewUserFilter call that returned True
    action_elem,  \* the <action> element the Action last passed was decoded from
    interesting_changesets_by_user,  \* work(): the result of the last container
    changes,    \* work(): the flattened changes of the last container
    ids_before, \* user_ids as it was when the last container arrived
    round,      \* work(): number of containers retrieved so far
    seqn,       \* the sequence number the driver is at
    delivered,  \* the sequence number and HTTP status of each container the
                \* driver handed on, in the order it handed them on
    retries     \* stream_adiff: 404 answers to the request being repeated

vars == <<pc, doc, container, elem, obj, geo, filt, change, ret, user_ids,
          prev_ids, hits, action_elem, interesting_changesets_by_user,
          changes, ids_before, round, seqn, delivered, retries>>

decodeVars == <<doc, container>>
objectVars == <<elem, obj, geo>>
filterVars == <<filt, change, ret, user_ids, prev_ids, hits, action_elem>>
workVars == <<interesting_changesets_by_user, changes, ids_before, round>>
streamVars == <<seqn, delivered, retries>>

-----------------------------------------------------------------------------
(* Python values *)

None == <<>>
Some(x) == <<x>>
Ok(v) == [ok |-> TRUE, val |-> v]
Raise(e) == [ok |-> FALSE, err |-> e]

\* The first outcome of a sequence of outcomes that raised, or Ok(values):
\* Python evaluates the arguments of a call from left to right.
RECURSIVE AllOk(_)
AllOk(rs) ==
    IF Len(rs) = 0 THEN Ok(<<>>)
    ELSE IF ~rs[1].ok THEN rs[1]
    ELSE LET rest == AllOk(Tail(rs))
         IN  IF rest.ok THEN Ok(<<rs[1].val>> \o rest.val) ELSE rest

-----------------------------------------------------------------------------
(* XML attribute values and their conversions *)

\* The decimal literals of the model and the integer int() reads from each.
IntLits ==
    [s \in {"0", "1", "2", "3", "7", "9", "55", "56"} |->
        CASE s = "0" -> 0 [] s = "1" -> 1 [] s = "2" -> 2 [] s = "3" -> 3
          [] s = "7" -> 7 [] s = "9" -> 9 [] s = "55" -> 55 [] s = "56" -> 56]

\* int(s)
ParseInt(s) == IF s \in DOMAIN IntLits THEN Ok(IntLits[s]) ELSE Raise("ValueError")

\* The coordinate literals of the model and the float (in microdegrees)
\* float() reads from each.
FloatLits ==
    [s \in {"45.0", "-93.0", "0", "0.0"} |->
        CASE s = "45.0" -> 45000000 [] s = "-93.0" -> -93000000
          [] s = "0" -> 0 [] s = "0.0" -> 0]

\* float(s)
ParseFloat(s) == IF s \in DOMAIN FloatLits THEN Ok(FloatLits[s]) ELSE Raise("ValueError")

\* The timestamps of the model, as minutes since the epoch.
IsoLits ==
    [s \in {"2024-05-01T12:00:00+00:00"} |-> 28576080]

\* datetime.fromisoformat(s)
ParseIso(s) == IF s \in DOMAIN IsoLits THEN Ok(IsoLits[s]) ELSE Raise("ValueError")

\* elem.attrib.get(a) is truthy: the attribute is given and not the empty string
HasAttr(e, a) == e.attrib[a] # None /\ e.attrib[a][1] # ""

\* elem.attrib[a]
Attr(e, a) == IF e.attrib[a] = None THEN Raise("KeyError") ELSE Ok(e.attrib[a][1])

\* The conversion a constructor argument applies to an attribute's string:
\* int(s), float(s), datetime.fromisoformat(s), or s itself.
Convert(conv, s) ==
    IF conv = "int" THEN ParseInt(s)
    ELSE IF conv = "float" THEN ParseFloat(s)
    ELSE IF conv = "iso" THEN ParseIso(s)
    ELSE Ok(s)

\* conv(elem.attrib[a])
Required(e, a, conv) ==
    IF e.attrib[a] = None THEN Raise("KeyError") ELSE Convert(conv, e.attrib[a][1])

\* An outcome whose value, if it has one, is a present optional
Present(r) == IF r.ok THEN Ok(Some(r.val)) ELSE r

\* conv(elem.attrib[a]) if elem.attrib.get(a) else None
Optional(e, a, conv) ==
    IF HasAttr(e, a) THEN Present(Convert(conv, e.attrib[a][1])) ELSE Ok(None)

\* elem.attrib.get("visible") != "false"
Visible(e) == Ok(e.attrib.visible # Some("false"))

\* {tag.attrib["k"]: tag.attrib["v"] for tag in elem.findall("tag")}: a later
\* tag of the same key replaces an earlier one.
RECURSIVE TagDict(_)
TagDict(kvs) ==
    IF kvs = <<>> THEN <<>>
    ELSE LET n    == Len(kvs)
             init == TagDict(SubSeq(kvs, 1, n - 1))
             k    == kvs[n][1]
         IN  [x \in (DOMAIN init) \cup {k} |-> IF x = k THEN kvs[n][2] ELSE init[x]]

\* tags.get(key)
TagGet(tags, key) == IF key \in DOMAIN tags THEN Some(tags[key]) ELSE None

-----------------------------------------------------------------------------
(* Entity model: src/src/osm.py *)

\* NodeRef.__init__: the lat and lon arguments are not stored.
NodeRefInit(oid, ref, lat, lon) ==
    [oid |-> oid, ref |-> ref, lat |-> None, lon |-> None]

\* cls(ref=..., lat=..., lon=...), the arguments evaluated
NodeRefNew(oid, args) ==
    IF args.ok
    THEN Ok(NodeRefInit(oid, args.val[1], args.val[2], args.val[3]))
    ELSE args

\* NodeRef.from_xml
NodeRefFromXml(nd, oid) ==
    NodeRefNew(oid, AllOk(<< Required(nd, "ref", "int"),
                             Optional(nd, "lat", "float"),
                             Optional(nd, "lon", "float") >>))

\* Node(id=..., ..., lon=...): OSMObject.__init__ and Node.__init__
NodeInit(oid, a) ==
    [oid |-> oid, type |-> "node", id |-> a[1], version |-> a[2],
     timestamp |-> a[3], uid |-> a[4], user |-> a[5],
     changeset |-> a[6], visible |-> a[7], tags |-> a[8],
     lat |-> a[9], lon |-> a[10]]

\* cls(...), the arguments evaluated
NodeNew(oid, args) == IF args.ok THEN Ok(NodeInit(oid, args.val)) ELSE args

\* Node.from_xml
NodeFromXml(e, oid) ==
    NodeNew(oid, AllOk(<< Required(e, "id", "int"),
                          Optional(e, "version", "int"),
                          Optional(e, "timestamp", "iso"),
                          Optional(e, "uid", "int"),
                          Optional(e, "user", "str"),
                          Optional(e, "changeset", "int"),
                          Visible(e),
                          Ok(TagDict(e.tags)),
                          Optional(e, "lat", "float"),
                          Optional(e, "lon", "float") >>))

\* Way(id=..., ..., nodes=...): OSMObject.__init__ and Way.__init__
WayInit(oid, a) ==
    [oid |-> oid, type |-> "way", id |-> a[1], version |-> Some(a[2]),
     timestamp |-> a[3], uid |-> a[4], user |-> a[5],
     changeset |-> a[6], visible |-> a[7], tags |-> a[8],
     nodes |-> a[9]]

\* cls(...), the arguments evaluated
WayNew(oid, args) == IF args.ok THEN Ok(WayInit(oid, args.val)) ELSE args

\* Way.from_xml
WayFromXml(e, oid) ==
    WayNew(oid, AllOk(<< Required(e, "id", "int"),
                         Required(e, "version", "int"),
                         Optional(e, "timestamp", "iso"),
                         Optional(e, "uid", "int"),
                         Optional(e, "user", "str"),
                         Optional(e, "changeset", "int"),
                         Visible(e),
                         Ok(TagDict(e.tags)),
                         AllOk([j \in 1..Len(e.nds) |->
                                   NodeRefFromXml(e.nds[j], oid \o <<j>>)]) >>))

\* Relation(id=..., ..., members=...): OSMObject.__init__, Relation.__init__
RelationInit(oid, a) ==
    [oid |-> oid, type |-> "relation", id |-> a[1],
     version |-> Some(a[2]), timestamp |-> Some(a[3]),
     uid |-> Some(a[4]), user |-> Some(a[5]),
     changeset |-> Some(a[6]), visible |-> a[7], tags |-> a[8],
     members |-> <<>>]

\* cls(...), the arguments evaluated
RelationNew(oid, args) ==
    IF args.ok THEN Ok(RelationInit(oid, args.val)) ELSE args

\* Relation.from_xml (the relations of the model have no members)
RelationFromXml(e, oid) ==
    RelationNew(oid, AllOk(<< Required(e, "id", "int"),
                              Required(e, "version", "int"),
                              Required(e, "timestamp", "iso"),
                              Required(e, "uid", "int"),
                              Required(e, "user", "str"),
                              Required(e, "changeset", "int"),
                              Visible(e),
                              Ok(TagDict(e.tags)) >>))

\* OSMObject.from_element
OSMObjectFromElement(e, oid) ==
    IF e.tag = "node" THEN NodeFromXml(e, oid)
    ELSE IF e.tag = "way" THEN WayFromXml(e, oid)
    ELSE IF e.tag = "relation" THEN RelationFromXml(e, oid)
    ELSE Raise("ValueError")

\* NodeRef defines no __eq__: a == b is object identity.
NodeRefEq(a, b) == a.oid = b.oid

\* OSMObject defines no __eq__: old != new is object identity, and an
\* object differs from None.  Both arguments are optionals.
OSMObjectNe(old, new) == old = None \/ new = None \/ old[1].oid # new[1].oid

\* [[n.lon, n.lat] for n in self.nodes]
Coords(nodes) == [j \in 1..Len(nodes) |-> <<nodes[j].lon, nodes[j].lat>>]

\* Node.__geo_interface__
NodeGeoInterface(o) ==
    Ok([type |-> "Point", coordinates |-> <<o.lon, o.lat>>])

\* Way.__geo_interface__
WayGeoInterface(o) ==
    IF o.nodes = <<>>
    THEN Ok([type |-> "Polygon", coordinates |-> <<>>])
    ELSE IF NodeRefEq(o.nodes[1], o.nodes[Len(o.nodes)])
    THEN Ok([type |-> "Polygon", coordinates |-> <<Coords(o.nodes)>>])
    ELSE Ok([type |-> "LineString", coordinates |-> Coords(o.nodes)])

\* Relation.__geo_interface__
RelationGeoInterface(o) == Raise("NotImplementedError")

\* obj.__geo_interface__
GeoInterface(o) ==
    IF o.type = "node" THEN NodeGeoInterface(o)
    ELSE IF o.type = "way" THEN WayGeoInterface(o)
    ELSE RelationGeoInterface(o)

-----------------------------------------------------------------------------
(* Diff decoder: src/src/adiff.py *)

\* Action(old=..., new=..., action=...), the arguments evaluated
ActionNew(oid, args) ==
    IF args.ok
    THEN Ok([oid |-> oid, action |-> args.val[3],
             old |-> args.val[1], new |-> args.val[2]])
    ELSE args

\* Action.from_element, for the k-th <action> of a document: the first
\* child of <old> and of <new>, each decoded if there is one.
ActionFromElement(entry, k) ==
    ActionNew(<<k>>,
              AllOk(<< IF entry.old = None THEN Ok(None)
                       ELSE Present(OSMObjectFromElement(entry.old[1], <<k, 1>>)),
                       IF entry.new = None THEN Ok(None)
                       ELSE Present(OSMObjectFromElement(entry.new[1], <<k, 2>>)),
                       Attr(entry, "type") >>))

\* A decoder that files an action by which of old and new it holds.
ClassifyByPresence(c, type, action) ==
    IF action.old = None THEN [c EXCEPT !.creates = Append(@, action)]
    ELSE IF action.new = None THEN [c EXCEPT !.deletes = Append(@, action)]
    ELSE [c EXCEPT !.modifies = Append(@, action)]

EmptyContainer == [creates |-> <<>>, modifies |-> <<>>, deletes |-> <<>>]

\* The body of the loop of ChangeContainer.from_element: the sequence the
\* declared type names gets the action, and any other type gets it nowhere.
Classify(c, type, action) ==
    IF type = "create" THEN [c EXCEPT !.creates = Append(@, action)]
    ELSE IF type = "modify" THEN [c EXCEPT !.modifies = Append(@, action)]
    ELSE IF type = "delete" THEN [c EXCEPT !.deletes = Append(@, action)]
    ELSE c

\* One pass of the loop of ChangeContainer.from_element: before and action
\* are the outcomes of the earlier passes and of Action.from_element, type
\* is the type attribute of the <action> element.
DecodeStep(before, action, type) ==
    IF ~before.ok THEN before
    ELSE IF ~action.ok THEN action
    ELSE Ok(Classify(before.val, type[1], action.val))

\* ChangeContainer.from_element on the first n <action> children
RECURSIVE DecodeUpTo(_, _)
DecodeUpTo(entries, n) ==
    IF n = 0 THEN Ok(EmptyContainer)
    ELSE DecodeStep(DecodeUpTo(entries, n - 1),
                    ActionFromElement(entries[n], n),
                    entries[n].attrib.type)

\* ChangeContainer.from_element
ChangeContainerFromElement(entries) == DecodeUpTo(entries, Len(entries))

\* ChangeContainer.changes
Changes(c) == c.creates \o c.modifies \o c.deletes

-----------------------------------------------------------------------------
(* XML elements the specifications draw their inputs from *)

NoAttrs ==
    [id |-> None, version |-> None, timestamp |-> None, uid |-> None,
     user |-> None, changeset |-> None, visible |-> None, lat |-> None,
     lon |-> None]

\* <tag id="id"/>: an element that carries only its id
Stub(tag, id) ==
    [tag |-> tag, attrib |-> [NoAttrs EXCEPT !.id = Some(id)],
     tags |-> <<>>, nds |-> <<>>]

\* <action type=...><old>..</old><new>..</new></action>
Entry(type, old, new) == [attrib |-> [type |-> type], old |-> old, new |-> new]

\* All sequences over S of length at most n
SeqsUpTo(S, n) == UNION {[1..m -> S] : m \in 0..n}

-----------------------------------------------------------------------------
(* Specification SpecDecode: one document is decoded *)

\* Longest document, in <action> children
MaxActions == 3

\* The declared types of the model; "merge" is not a type the decoder knows.
ActionTypes == {"create", "modify", "delete", "merge"}

\* The <action> children of the model: every declared type with and without
\* an <old> and a <new> node, one action without a type attribute, one
\* whose <new> child is no OSM primitive, and one of a type the decoder
\* does not know whose <old> child is a way that carries only its id.
DecodeEntries ==
    {Entry(Some(t), o, n) : t \in ActionTypes,
                            o \in {None, Some(Stub("node", "1"))},
                            n \in {None, Some(Stub("node", "1"))}}
    \cup {Entry(None, None, Some(Stub("node", "1"))),
          Entry(Some("create"), None, Some(Stub("bounds", "1"))),
          Entry(Some("merge"), Some(Stub("way", "1")), None)}

Idle == <<>>

InitDecode ==
    /\ pc = "start"
    /\ doc \in SeqsUpTo(DecodeEntries, MaxActions)
    /\ container = Idle
    /\ elem = Idle /\ obj = Idle /\ geo = Idle
    /\ filt = Idle /\ change = Idle /\ ret = Idle
    /\ user_ids = {} /\ prev_ids = {} /\ hits = <<>> /\ action_elem = Idle
    /\ interesting_changesets_by_user = Idle /\ changes = Idle
    /\ ids_before = {} /\ round = 0
    /\ seqn = 0 /\ delivered = <<>> /\ retries = 0

\* ChangeContainer.from_element(doc)
Decode ==
    /\ pc = "start"
    /\ container' = ChangeContainerFromElement(doc)
    /\ pc' = IF container'.ok THEN "decoded" ELSE "raised"
    /\ UNCHANGED <<doc, objectVars, filterVars, workVars, streamVars>>

NextDecode == Decode

SpecDecode == InitDecode /\ [][NextDecode]_vars

(* Claims on the decoder *)

\* The places in d of the <action> children whose declared type is t
IndexSet(d, t) == {k \in 1..Len(d) : d[k].attrib.type = Some(t)}

\* The elements of a set of numbers, in increasing order
Ascending(S) ==
    CHOOSE f \in [1..Cardinality(S) -> S] :
        \A i, j \in 1..Cardinality(S) : i < j => f[i] < f[j]

\* The place in the document each action of a sequence was decoded from
Origins(actions) == [j \in 1..Len(actions) |-> actions[j].oid[1]]

\* C1: when a document is decoded, creates, modifies and deletes hold the
\* actions of the <action> children that declare that type, each in document
\* order and whatever old and new they carry, and changes() is the creates,
\* then the modifies, then the deletes, so that its length is the sum of
\* the three lengths.
C1_ChangesByDeclaredType ==
    pc = "decoded" =>
        LET c == container.val
        IN  /\ Origins(c.creates) = Ascending(IndexSet(doc, "create"))
            /\ Origins(c.modifies) = Ascending(IndexSet(doc, "modify"))
            /\ Origins(c.deletes) = Ascending(IndexSet(doc, "delete"))
            /\ Origins(Changes(c)) =
                   Ascending(IndexSet(doc, "create"))
                   \o Ascending(IndexSet(doc, "modify"))
                   \o Ascending(IndexSet(doc, "delete"))
            /\ Len(Changes(c)) =
                   Len(c.creates) + Len(c.modifies) + Len(c.deletes)
            /\ \A j \in 1..Len(Changes(c)) :
                   LET a == Changes(c)[j]
                       e == doc[a.oid[1]]
                   IN  /\ a.action = e.attrib.type[1]
                       /\ (a.old = None) = (e.old = None)
                       /\ (a.new = None) = (e.new = None)

\* C1 witness: a decoded document that declares a delete, then a modify, then
\* a create, the delete carrying only a new object and the create only an old
\* one.
C1_Witness ==
    /\ pc = "decoded"
    /\ Len(doc) = 3
    /\ doc[1] = Entry(Some("delete"), None, Some(Stub("node", "1")))
    /\ doc[2].attrib.type = Some("modify")
    /\ doc[3] = Entry(Some("create"), Some(Stub("node", "1")), None)
    /\ Origins(Changes(container.val)) = <<3, 2, 1>>

\* C6: every decoded action of kind create has no old object, and every
\* decoded action of kind modify has both an old and a new object.
C6_CreateHasNoOldModifyHasBoth ==
    pc = "decoded" =>
        \A j \in 1..Len(Changes(container.val)) :
            LET a == Changes(container.val)[j]
            IN  /\ a.action = "create" => a.old = None
                /\ a.action = "modify" => (a.old # None /\ a.new # None)

\* The declared type of the <action> element e is one the decoder knows, or
\* e declares no type
KnownOrUntyped(e) ==
    e.attrib.type = None \/ e.attrib.type[1] \in {"create", "modify", "delete"}

\* An object without the place of its allocation, and an action likewise
Unplaced(optObj) ==
    IF optObj = None THEN None ELSE Some([optObj[1] EXCEPT !.oid = <<>>])
UnplacedActions(actions) ==
    [j \in 1..Len(actions) |->
        [action |-> actions[j].action, old |-> Unplaced(actions[j].old),
         new |-> Unplaced(actions[j].new)]]

\* C12: an <action> whose declared type is none of create, modify and delete
\* is dropped and does not fail the decode: the document decodes exactly
\* when it decodes with those entries taken out, to the same creates,
\* modifies and deletes, none of which holds an action of such a type.
C12_UnknownTypeIsDropped ==
    pc \in {"decoded", "raised"} =>
        LET without == ChangeContainerFromElement(SelectSeq(doc, KnownOrUntyped))
        IN  /\ container.ok = without.ok
            /\ container.ok =>
                /\ UnplacedActions(container.val.creates)
                       = UnplacedActions(without.val.creates)
                /\ UnplacedActions(container.val.modifies)
                       = UnplacedActions(without.val.modifies)
                /\ UnplacedActions(container.val.deletes)
                       = UnplacedActions(without.val.deletes)
                /\ \A j \in 1..Len(Changes(container.val)) :
                       Changes(container.val)[j].action
                           \in {"create", "modify", "delete"}

-----------------------------------------------------------------------------
(* Specification SpecObject: one element is decoded and its geometry read *)

\* Longest node list of a way, in <nd> children
MaxNds == 4

\* <nd ref=.. /> and <nd ref=.. lat=.. lon=.. />
NdElems ==
    {[attrib |-> [ref |-> Some(r), lat |-> c[1], lon |-> c[2]]] :
        r \in {"1", "2", "3"},
        c \in {<<None, None>>, <<Some("45.0"), Some("-93.0")>>}}

FullAttrs ==
    [id |-> Some("1"), version |-> Some("2"),
     timestamp |-> Some("2024-05-01T12:00:00+00:00"), uid |-> Some("7"),
     user |-> Some("iandees"), changeset |-> Some("55"), visible |-> None,
     lat |-> None, lon |-> None]

\* An element with every metadata attribute
Full(tag) == [tag |-> tag, attrib |-> FullAttrs, tags |-> <<>>, nds |-> <<>>]

\* The elements of the model: every kind as a bare stub and with its
\* metadata, an element that is no OSM primitive, nodes with and without
\* each coordinate, and ways over every node list.
ObjectElems ==
    {Stub(t, "1") : t \in {"node", "way", "relation", "bounds"}}
    \cup {Full(t) : t \in {"node", "way", "relation"}}
    \cup {[Full("node") EXCEPT !.attrib.lat = la, !.attrib.lon = lo] :
            la \in {None, Some(""), Some("45.0"), Some("north")},
            lo \in {None, Some("-93.0")}}
    \cup {[Full("way") EXCEPT !.nds = nds] : nds \in SeqsUpTo(NdElems, MaxNds)}

InitObject ==
    /\ pc = "start"
    /\ elem \in ObjectElems
    /\ obj = Idle /\ geo = Idle
    /\ doc = Idle /\ container = Idle
    /\ filt = Idle /\ change = Idle /\ ret = Idle
    /\ user_ids = {} /\ prev_ids = {} /\ hits = <<>> /\ action_elem = Idle
    /\ interesting_changesets_by_user = Idle /\ changes = Idle
    /\ ids_before = {} /\ round = 0
    /\ seqn = 0 /\ delivered = <<>> /\ retries = 0

\* OSMObject.from_element(elem)
FromElement ==
    /\ pc = "start"
    /\ obj' = OSMObjectFromElement(elem, <<1>>)
    /\ pc' = IF obj'.ok THEN "built" ELSE "raised"
    /\ UNCHANGED <<elem, geo, decodeVars, filterVars, workVars, streamVars>>

\* obj.__geo_interface__
ReadGeoInterface ==
    /\ pc = "built"
    /\ geo' = GeoInterface(obj.val)
    /\ pc' = "geo"
    /\ UNCHANGED <<elem, obj, decodeVars, filterVars, workVars, streamVars>>

NextObject == FromElement \/ ReadGeoInterface

SpecObject == InitObject /\ [][NextObject]_vars

\* C4: the geometry of a decoded way is an empty polygon when it has no
\* nodes, a polygon of one ring with a coordinate pair per node when its
\* first and last node reference the same id, and otherwise a line string
\* with a coordinate pair per node.
C4_WayGeometryByReferenceId ==
    (pc = "geo" /\ obj.val.type = "way") =>
        LET nodes == obj.val.nodes
            n     == Len(nodes)
        IN  /\ geo.ok
            /\ IF n = 0
               THEN geo.val = [type |-> "Polygon", coordinates |-> <<>>]
               ELSE IF nodes[1].ref = nodes[n].ref
               THEN /\ geo.val.type = "Polygon"
                    /\ Len(geo.val.coordinates) = 1
                    /\ Len(geo.val.coordinates[1]) = n
               ELSE /\ geo.val.type = "LineString"
                    /\ Len(geo.val.coordinates) = n

\* C13: an element of a primitive kind that carries only its id decodes, to
\* an object of that type and id whose version, uid and changeset are
\* absent, which is visible and has no tags.
C13_BareStubDecodes ==
    (pc # "start" /\ elem \in {Stub(t, "1") : t \in {"node", "way", "relation"}}) =>
        /\ obj.ok
        /\ obj.val.type = elem.tag
        /\ obj.val.id = 1
        /\ obj.val.version = None
        /\ obj.val.uid = None
        /\ obj.val.changeset = None
        /\ obj.val.visible = TRUE
        /\ obj.val.tags = <<>>

\* The number float() reads from an attribute, if the attribute is given
XmlCoordinate(optAttr) ==
    IF optAttr = None THEN None ELSE Some(ParseFloat(optAttr[1]).val)

\* C14: a NodeRef decoded from an <nd> element holds the lat and lon the
\* element gives, and none where it gives none, and the geometry of the way
\* carries these (lon, lat) pairs in node order.
C14_NodeRefKeepsCoordinates ==
    (pc \in {"built", "geo"} /\ obj.val.type = "way") =>
        /\ Len(obj.val.nodes) = Len(elem.nds)
        /\ \A j \in 1..Len(elem.nds) :
               /\ obj.val.nodes[j].lat = XmlCoordinate(elem.nds[j].attrib.lat)
               /\ obj.val.nodes[j].lon = XmlCoordinate(elem.nds[j].attrib.lon)
        /\ (pc = "geo" /\ geo.ok) =>
               (IF geo.val.type = "LineString" THEN geo.val.coordinates
                ELSE IF geo.val.coordinates = <<>> THEN <<>>
                ELSE geo.val.coordinates[1]) =
                   [j \in 1..Len(elem.nds) |->
                       << XmlCoordinate(elem.nds[j].attrib.lon),
                          XmlCoordinate(elem.nds[j].attrib.lat) >>]

-----------------------------------------------------------------------------
(* The geometry library, as far as the filters use it *)

\* A coordinate pair that holds no number
PairEmpty(p) == p[1] = None /\ p[2] = None

\* A coordinate pair that holds two numbers
PairFull(p) == p[1] # None /\ p[2] # None

\* The coordinate pairs of a __geo_interface__ mapping
GeoPairs(g) ==
    IF g.type = "Point" THEN <<g.coordinates>>
    ELSE IF g.type = "LineString" THEN g.coordinates
    ELSE IF g.coordinates = <<>> THEN <<>>
    ELSE g.coordinates[1]

EmptyGeometry == [empty |-> TRUE]

\* shapely.geometry.shape(o): coordinates that hold no number at all give the
\* empty geometry of the type; a None among numbers is a TypeError; anything
\* else is the geometry over the pairs (x, y) = (lon, lat).
ShapeOfPairs(type, pairs) ==
    IF \A j \in 1..Len(pairs) : PairEmpty(pairs[j])
    THEN Ok(EmptyGeometry)
    ELSE IF \E j \in 1..Len(pairs) : ~PairFull(pairs[j])
    THEN Raise("TypeError")
    ELSE Ok([empty |-> FALSE, type |-> type,
             points |-> [j \in 1..Len(pairs) |->
                            <<pairs[j][1][1], pairs[j][2][1]>>]])

\* shapely.geometry.shape over what __geo_interface__ gave or raised
ShapeOfMapping(g) == IF ~g.ok THEN g ELSE ShapeOfPairs(g.val.type, GeoPairs(g.val))

\* shapely.geometry.shape(o)
ShapelyShape(o) == ShapeOfMapping(GeoInterface(o))

\* geometry.__bool__: a geometry is truthy unless it is empty
GeometryTruthy(optGeom) == optGeom # None /\ ~optGeom[1].empty

\* point.intersects(box), the box being (minlon, minlat, maxlon, maxlat) with
\* its boundary.  Only points reach this: the NodeRefs of a way hold no
\* coordinates, so the geometry of a way is always empty.
Intersects(geom, box) ==
    \E j \in 1..Len(geom.points) :
        /\ box[1] <= geom.points[j][1] /\ geom.points[j][1] <= box[3]
        /\ box[2] <= geom.points[j][2] /\ geom.points[j][2] <= box[4]

-----------------------------------------------------------------------------
(* Filter engine: src/src/filters.py *)

\* What matches() returns is one of the Python values True, False and None,
\* or an empty geometry; only True is truthy.
PyBool(b) == IF b THEN "True" ELSE "False"
Truthy(v) == v = "True"

\* A matches() call that leaves the filter as it is
Pure(outcome, ids) == [out |-> outcome, ids |-> ids]

\* A filter that reads an absent uid as the uid 0
UserIDChangedMatchesSentinel(f, c) ==
    LET uid(o) == IF o.uid = None THEN 0 ELSE o.uid[1]
    IN  IF c.old = None THEN Ok("None")
        ELSE IF c.new = None THEN Ok("None")
        ELSE IF uid(c.old[1]) # f.user_id THEN Ok("False")
        ELSE Ok(PyBool(uid(c.new[1]) # f.user_id))

\* UserIDChangedFilter.matches
UserIDChangedMatches(f, c) ==
    IF c.old = None THEN Ok("None")
    ELSE IF c.new = None THEN Ok("None")
    ELSE IF c.old[1].uid # Some(f.user_id) THEN Ok("False")
    ELSE Ok(PyBool(c.new[1].uid # Some(f.user_id)))

\* UserIDMadeChangeFilter.matches
UserIDMadeChangeMatches(f, c) ==
    IF c.new = None THEN Ok("None")
    ELSE Ok(PyBool(c.new[1].uid = Some(f.user_id)))

\* A filter that does not remember the uid it reports
NewUserMatchesForgetful(ids, c) ==
    IF c.new = None THEN [out |-> Ok("False"), ids |-> ids]
    ELSE IF c.new[1].uid \notin ids
    THEN [out |-> Ok("True"), ids |-> ids]
    ELSE [out |-> Ok("False"), ids |-> ids]

\* NewUserFilter.matches: the outcome and the user_ids it leaves
NewUserMatches(ids, c) ==
    IF c.new = None THEN [out |-> Ok("False"), ids |-> ids]
    ELSE IF c.new[1].uid \notin ids
    THEN [out |-> Ok("True"), ids |-> ids \cup {c.new[1].uid}]
    ELSE [out |-> Ok("False"), ids |-> ids]

\* ObjectChangedFilter.matches
ObjectChangedMatches(f, c) ==
    LET thing_to_check == IF c.old # None THEN c.old ELSE c.new
    IN  IF thing_to_check = None THEN Raise("AttributeError")
        ELSE IF thing_to_check[1].type # f.obj_type THEN Ok("False")
        ELSE Ok(PyBool(thing_to_check[1].id = f.obj_id))

\* thing_to_check and thing_to_check.intersects(self.shape)
ThingIntersects(f, thing_to_check) ==
    IF thing_to_check = None THEN Ok("None")
    ELSE IF thing_to_check[1].empty THEN Ok("EmptyGeometry")
    ELSE Ok(PyBool(Intersects(thing_to_check[1], f.shape)))

\* ChangeInShapeFilter.matches from the point where old_shape and new_shape
\* have been built or have raised, old_shape first
ShapesMatch(f, c, old_shape, new_shape) ==
    IF ~old_shape.ok THEN old_shape
    ELSE IF ~new_shape.ok THEN new_shape
    ELSE IF c.old # None /\ c.new # None
            /\ c.old[1].changeset = c.new[1].changeset
    THEN Ok("False")
    ELSE ThingIntersects(f, IF GeometryTruthy(new_shape.val)
                            THEN new_shape.val ELSE old_shape.val)

\* ChangeInShapeFilter.matches, which ChangeInBoundingBoxFilter inherits
ChangeInShapeMatches(f, c) ==
    IF (c.old # None /\ c.old[1].type = "relation")
       \/ (c.new # None /\ c.new[1].type = "relation")
    THEN Ok("False")
    ELSE ShapesMatch(f, c,
                     IF c.old # None /\ c.old[1].visible
                     THEN Present(ShapelyShape(c.old[1])) ELSE Ok(None),
                     IF c.new # None /\ c.new[1].visible
                     THEN Present(ShapelyShape(c.new[1])) ELSE Ok(None))

\* A tag filter that does not compare the old value with the new one
TagValueInListMatchesAnyWatched(f, c) ==
    LET new_value == IF c.new # None THEN TagGet(c.new[1].tags, f.tag) ELSE None
    IN  Ok(PyBool(new_value # None
                  /\ \E j \in 1..Len(f.values) : f.values[j] = new_value[1]))

\* TagValueInListFilter.matches
TagValueInListMatches(f, c) ==
    LET old_value == IF c.old # None THEN TagGet(c.old[1].tags, f.tag) ELSE None
        new_value == IF c.new # None THEN TagGet(c.new[1].tags, f.tag) ELSE None
    IN  Ok(PyBool(old_value # new_value
                  /\ new_value # None
                  /\ \E j \in 1..Len(f.values) : f.values[j] = new_value[1]))

\* ObjectWithTagChangedFilter.matches
ObjectWithTagChangedMatches(f, c) ==
    LET old_has_tag == IF c.old = None THEN "None"
                       ELSE PyBool(TagGet(c.old[1].tags, f.tag) = Some(f.value))
        new_has_tag == IF c.new = None THEN "None"
                       ELSE PyBool(TagGet(c.new[1].tags, f.tag) = Some(f.value))
    IN  IF Truthy(old_has_tag) /\ OSMObjectNe(c.old, c.new) THEN Ok("True")
        ELSE IF c.action # "create" THEN Ok("False")
        ELSE Ok(new_has_tag)

\* The value has the attributes action, old and new of an Action.  A tuple,
\* which is modelled as [tuple |-> <<...>>], has none of them.
IsAction(c) == "action" \in DOMAIN c

\* filter.matches(change): the outcome and the user_ids it leaves.  Every
\* matches() begins with
\*     action, old, new = change.action, change.old, change.new
\* which raises AttributeError on a change that is no Action.
Matches(f, c, ids) ==
    IF ~IsAction(c) THEN Pure(Raise("AttributeError"), ids)
    ELSE IF f.class = "UserIDChangedFilter" THEN Pure(UserIDChangedMatches(f, c), ids)
    ELSE IF f.class = "UserIDMadeChangeFilter"
    THEN Pure(UserIDMadeChangeMatches(f, c), ids)
    ELSE IF f.class = "NewUserFilter" THEN NewUserMatches(ids, c)
    ELSE IF f.class = "ObjectChangedFilter" THEN Pure(ObjectChangedMatches(f, c), ids)
    ELSE IF f.class = "ChangeInBoundingBoxFilter"
    THEN Pure(ChangeInShapeMatches(f, c), ids)
    ELSE IF f.class = "TagValueInListFilter"
    THEN Pure(TagValueInListMatches(f, c), ids)
    ELSE Pure(ObjectWithTagChangedMatches(f, c), ids)

-----------------------------------------------------------------------------
(* Specification SpecFilter: a filter instance is called on decoded actions *)

\* bbox=(-94.240723, 44.486868, -92.164307, 45.323342), name="Twin Cities"
TwinCities == <<-94240723, 44486868, -92164307, 45323342>>

\* The filter instances of the model.  A NewUserFilter is built over the set
\* `seed`, which is its user_ids from then on.
Filters ==
    {[class |-> "UserIDChangedFilter", user_id |-> u] : u \in {0, 7}}
    \cup {[class |-> "UserIDMadeChangeFilter", user_id |-> 7]}
    \cup {[class |-> "NewUserFilter", seed |-> ids] : ids \in {{}, {Some(7)}}}
    \cup {[class |-> "ObjectChangedFilter", obj_type |-> "node", obj_id |-> 1]}
    \cup {[class |-> "ChangeInBoundingBoxFilter", shape |-> TwinCities,
           name |-> "Twin Cities"]}
    \cup {[class |-> "TagValueInListFilter", tag |-> "name",
           values |-> <<"stupid", "dumb">>]}
    \cup {[class |-> "ObjectWithTagChangedFilter", tag |-> "name",
           value |-> "dumb"]}

\* Nodes that differ in their uid attribute
UidElems ==
    {[Full("node") EXCEPT !.attrib.uid = u] :
        u \in {None, Some(""), Some("0"), Some("7"), Some("9")}}

\* Objects that differ in their kind and id
IdentityElems ==
    {[Full(t) EXCEPT !.attrib.id = Some(i)] :
        t \in {"node", "way", "relation"}, i \in {"1", "2"}}

\* A closed way with inline coordinates inside the Twin Cities box
RingNds ==
    [j \in 1..3 |->
        [attrib |-> [ref |-> Some(IF j = 2 THEN "2" ELSE "1"),
                     lat |-> Some("45.0"), lon |-> Some("-93.0")]]]

\* Objects that differ in visibility, changeset and geometry: nodes inside
\* the Twin Cities box, outside it, without coordinates and with one
\* coordinate only; ways without nodes and closed; a relation.
GeoElems ==
    {[Full("node") EXCEPT !.attrib.visible = v, !.attrib.changeset = cs,
                          !.attrib.lat = ll[1], !.attrib.lon = ll[2]] :
        v \in {None, Some("false")},
        cs \in {None, Some("55"), Some("56")},
        ll \in {<<None, None>>, <<Some("45.0"), Some("-93.0")>>,
                <<Some("0"), Some("0")>>, <<Some("45.0"), None>>}}
    \cup {[Full("way") EXCEPT !.attrib.changeset = cs, !.nds = nds] :
            cs \in {Some("55"), Some("56")}, nds \in {<<>>, RingNds}}
    \cup {Full("relation")}

\* Nodes that differ in their tags and version
TagElems ==
    {[Full("node") EXCEPT !.attrib.version = Some(v), !.tags = ts] :
        v \in {"1", "2"},
        ts \in {<<>>, <<<<"name", "ok">>>>, <<<<"name", "dumb">>>>,
                <<<<"name", "dumb">>, <<"name", "ok">>>>,
                <<<<"highway", "dumb">>>>}}

\* The elements a filter is called on: they differ in what the filter reads
ElemsFor(f) ==
    IF f.class \in {"UserIDChangedFilter", "UserIDMadeChangeFilter", "NewUserFilter"}
    THEN UidElems
    ELSE IF f.class = "ObjectChangedFilter" THEN IdentityElems
    ELSE IF f.class = "ChangeInBoundingBoxFilter" THEN GeoElems
    ELSE TagElems

\* The <action> elements a filter is called on: every kind, with and without
\* an old and a new object
EntriesFor(f) ==
    {Entry(Some(t), o, n) :
        t \in {"create", "modify", "delete"},
        o \in {None} \cup {Some(e) : e \in IF f.class = "NewUserFilter"
                                            THEN {Full("node")}
                                            ELSE ElemsFor(f)},
        n \in {None} \cup {Some(e) : e \in ElemsFor(f)}}

InitFilter ==
    /\ pc = "ready"
    /\ filt \in Filters
    /\ user_ids = IF filt.class = "NewUserFilter" THEN filt.seed ELSE {}
    /\ prev_ids = user_ids
    /\ hits = <<>>
    /\ action_elem = Idle /\ change = Idle /\ ret = Idle
    /\ doc = Idle /\ container = Idle
    /\ elem = Idle /\ obj = Idle /\ geo = Idle
    /\ interesting_changesets_by_user = Idle /\ changes = Idle
    /\ ids_before = {} /\ round = 0
    /\ seqn = 0 /\ delivered = <<>> /\ retries = 0

\* filt.matches(Action.from_element(e)).  A filter that keeps no state is
\* called once; a NewUserFilter is called any number of times.
Call ==
    /\ pc = "ready" \/ filt.class = "NewUserFilter"
    /\ \E e \in EntriesFor(filt) :
        \E a \in {ActionFromElement(e, 1)} :
            /\ a.ok
            /\ \E m \in {Matches(filt, a.val, user_ids)} :
                /\ action_elem' = e
                /\ change' = a.val
                /\ ret' = m.out
                /\ prev_ids' = user_ids
                /\ user_ids' = m.ids
                /\ hits' = IF filt.class = "NewUserFilter" /\ m.out.ok
                              /\ Truthy(m.out.val)
                           THEN Append(hits, a.val.new[1].uid)
                           ELSE hits
                /\ pc' = IF m.out.ok THEN "returned" ELSE "raised"
                /\ UNCHANGED <<filt, decodeVars, objectVars, workVars,
                             streamVars>>

NextFilter == Call

SpecFilter == InitFilter /\ [][NextFilter]_vars

(* Claims on the filters *)

\* The filter under evaluation is of class cls and has been called
Called(cls) == pc # "ready" /\ filt.class = cls

\* The value of tag `key` of an element that may be absent: that of the last
\* <tag> child with this key
XmlTagValue(optElem, key) ==
    IF optElem = None THEN None
    ELSE LET tags == optElem[1].tags
             at   == {j \in 1..Len(tags) : tags[j][1] = key}
         IN  IF at = {} THEN None
             ELSE Some(tags[CHOOSE j \in at : \A k \in at : k <= j][2])

\* The uid attribute of an element that may be absent reads as the integer u
XmlUidIs(optElem, u) ==
    /\ optElem # None
    /\ \E s \in DOMAIN IntLits : IntLits[s] = u /\ optElem[1].attrib.uid = Some(s)

\* Two objects agree on every attribute
SameSnapshot(a, b) == [a EXCEPT !.oid = <<>>] = [b EXCEPT !.oid = <<>>]

\* C2: a call of a NewUserFilter on an action with a new object returns true
\* exactly when the uid of new was not in user_ids before the call, and the
\* uid is in user_ids after it; no id leaves user_ids, no uid of the set the
\* filter was built over ever matches, and no uid matches twice.
C2_NewUserMatchesOnFirstSighting ==
    Called("NewUserFilter") =>
        /\ ret.ok
        /\ prev_ids \subseteq user_ids
        /\ filt.seed \subseteq user_ids
        /\ change.new # None =>
              /\ Truthy(ret.val) <=> change.new[1].uid \notin prev_ids
              /\ change.new[1].uid \in user_ids
        /\ \A j \in 1..Len(hits) :
              /\ hits[j] \notin filt.seed
              /\ \A k \in 1..Len(hits) : j # k => hits[j] # hits[k]

\* C2 witness: a filter built over {7} has matched uid 9 once and is called
\* on uid 9 again, which does not match.
C2_Witness ==
    /\ Called("NewUserFilter")
    /\ filt.seed = {Some(7)}
    /\ hits = <<Some(9)>>
    /\ change.new # None
    /\ change.new[1].uid = Some(9)
    /\ Some(9) \in prev_ids
    /\ ret = Ok("False")

\* C3: a shape filter called on an action whose old and new are both present
\* and carry the same changeset returns no match.
C3_SameChangesetReturnsNoMatch ==
    (/\ Called("ChangeInBoundingBoxFilter")
     /\ change.old # None /\ change.new # None
     /\ change.old[1].changeset = change.new[1].changeset)
    => (ret.ok /\ ~Truthy(ret.val))

\* C5: a matches() call on a decoded action returns; it never raises.
C5_MatchesNeverRaises ==
    pc # "ready" => ret.ok

\* C7: a TagValueInListFilter matches exactly when the value of its key in
\* old differs from the one in new and the one in new is a watched value,
\* the value being absent when the object is absent or lacks the key.
C7_TagValueInList ==
    Called("TagValueInListFilter") =>
        LET old_value == XmlTagValue(action_elem.old, filt.tag)
            new_value == XmlTagValue(action_elem.new, filt.tag)
            watched   == {filt.values[j] : j \in 1..Len(filt.values)}
        IN  /\ ret.ok
            /\ Truthy(ret.val) <=>
                  (old_value # new_value /\ new_value # None
                   /\ new_value[1] \in watched)
            /\ action_elem.new = None => ~Truthy(ret.val)

\* C7 witness: the tag changes from "ok" to the watched value "dumb", and
\* the filter matches.
C7_Witness ==
    /\ Called("TagValueInListFilter")
    /\ XmlTagValue(action_elem.old, "name") = Some("ok")
    /\ XmlTagValue(action_elem.new, "name") = Some("dumb")
    /\ ret = Ok("True")

\* C8: an ObjectWithTagChangedFilter matches exactly when old carries the
\* watched tag and differs from new in some attribute, or the action is a
\* create and new carries the watched tag.
C8_ObjectWithTagChanged ==
    Called("ObjectWithTagChangedFilter") =>
        /\ ret.ok
        /\ Truthy(ret.val) <=>
              \/ /\ change.old # None
                 /\ XmlTagValue(action_elem.old, filt.tag) = Some(filt.value)
                 /\ (change.new = None \/ ~SameSnapshot(change.old[1], change.new[1]))
              \/ /\ action_elem.attrib.type = Some("create")
                 /\ XmlTagValue(action_elem.new, filt.tag) = Some(filt.value)

\* C9: a UserIDChangedFilter matches exactly when old and new are both
\* present, the uid of old is the watched uid and the uid of new is not, an
\* absent uid being no integer at all.
C9_UserIDChanged ==
    Called("UserIDChangedFilter") =>
        /\ ret.ok
        /\ Truthy(ret.val) <=>
              /\ action_elem.old # None /\ action_elem.new # None
              /\ XmlUidIs(action_elem.old, filt.user_id)
              /\ ~XmlUidIs(action_elem.new, filt.user_id)
        /\ (action_elem.old = None \/ action_elem.new = None) => ~Truthy(ret.val)

\* C9 witness: the filter watches uid 0, old has uid 0 and new has no uid:
\* the filter matches; and were old without a uid it would not.
C9_Witness ==
    /\ Called("UserIDChangedFilter")
    /\ filt.user_id = 0
    /\ action_elem.old # None /\ action_elem.new # None
    /\ action_elem.old[1].attrib.uid = Some("0")
    /\ action_elem.new[1].attrib.uid = None
    /\ ret = Ok("True")

-----------------------------------------------------------------------------
(* Explanations: src/src/filters.py *)

\* repr() of a list of strings
RECURSIVE ListItems(_)
ListItems(values) ==
    IF Len(values) = 0 THEN ""
    ELSE IF Len(values) = 1 THEN "'" \o values[1] \o "'"
    ELSE "'" \o values[1] \o "', " \o ListItems(Tail(values))

ListRepr(values) == "[" \o ListItems(values) \o "]"

\* str() of a member of OSMType
EnumStr(type) ==
    IF type = "node" THEN "OSMType.NODE"
    ELSE IF type = "way" THEN "OSMType.WAY"
    ELSE "OSMType.RELATION"

\* filter.explanation()
Explanation(f) ==
    IF f.class = "UserIDChangedFilter"
    THEN "User ID changed from " \o ToString(f.user_id)
    ELSE IF f.class = "UserIDMadeChangeFilter"
    THEN "User ID " \o ToString(f.user_id) \o " made a change"
    ELSE IF f.class = "NewUserFilter" THEN "New user made a change"
    ELSE IF f.class = "ObjectChangedFilter"
    THEN "Object " \o EnumStr(f.obj_type) \o " " \o ToString(f.obj_id) \o " changed"
    ELSE IF f.class = "ChangeInBoundingBoxFilter"
    THEN IF f.name # "" THEN "Change in shape \"" \o f.name \o "\""
         ELSE "Change in shape"
    ELSE IF f.class = "TagValueInListFilter"
    THEN IF Len(f.values) > 3
         THEN "Tag " \o f.tag \o " changed to one of "
              \o ListRepr(SubSeq(f.values, 1, 3)) \o " and "
              \o ToString(Len(f.values) - 3) \o " more"
         ELSE "Tag " \o f.tag \o " changed to one of " \o ListRepr(f.values)
    ELSE "Object with tag " \o f.tag \o "=" \o f.value \o " changed"

-----------------------------------------------------------------------------
(* Alert aggregation: work() of src/src/fetch_changes.py *)

\* user_filters: one user with one bounding-box filter
UserInterests ==
    << [user_id |-> "iandees",
        filters |-> << [class |-> "ChangeInBoundingBoxFilter",
                        shape |-> TwinCities, name |-> "Twin Cities"] >>] >>

\* What a.retrieve() leaves in a.create, a.modify and a.delete: the new
\* objects of the creates, and the old and new objects of the others.
AugmentedDiff(c) ==
    [create |-> [j \in 1..Len(c.creates) |-> c.creates[j].new],
     modify |-> [j \in 1..Len(c.modifies) |->
                    [old |-> c.modifies[j].old, new |-> c.modifies[j].new]],
     delete |-> [j \in 1..Len(c.deletes) |->
                    [old |-> c.deletes[j].old, new |-> c.deletes[j].new]]]

\* A Python tuple: it has items, and no attributes of an Action
PyTuple(items) == [tuple |-> items]

\* "Flatten changes to a list of (action, element) tuples": each change is
\* the tuple (action, old, new)
Flatten(a) ==
    [j \in 1..Len(a.create) |-> PyTuple(<<"create", None, a.create[j]>>)]
    \o [j \in 1..Len(a.modify) |->
        PyTuple(<<"modify", a.modify[j].old, a.modify[j].new>>)]
    \o [j \in 1..Len(a.delete) |->
        PyTuple(<<"delete", a.delete[j].old, a.delete[j].new>>)]

\* int(new.attribs["changeset"]), new being change[2]
ChangesetId(ch) ==
    IF ch.tuple[3] = None THEN Raise("AttributeError")
    ELSE IF ch.tuple[3][1].changeset = None THEN Raise("KeyError")
    ELSE Ok(ch.tuple[3][1].changeset[1])

\* "Gather unique changesets seen in the changes"
GatherChangesets(chs) == AllOk([k \in 1..Len(chs) |-> ChangesetId(chs[k])])

\* interesting_changesets_by_user[user][explanation].add(changeset_id)
Record(res, user, explanation, changeset_id) ==
    LET by_explanation == IF user \in DOMAIN res THEN res[user] ELSE <<>>
        ids == IF explanation \in DOMAIN by_explanation
               THEN by_explanation[explanation] ELSE {}
    IN  [u \in DOMAIN res \cup {user} |->
            IF u = user
            THEN [e \in DOMAIN by_explanation \cup {explanation} |->
                     IF e = explanation THEN ids \cup {changeset_id}
                     ELSE by_explanation[e]]
            ELSE res[u]]
\* An aggregation state: the result so far, the user_ids of the
\* NewUserFilter, and the exception that ended it, if one did
Running(res, ids) == [ok |-> TRUE, res |-> res, ids |-> ids]

\* if user_filter.user_id not in interesting_changesets_by_user:
\*     interesting_changesets_by_user[user_filter.user_id] = defaultdict(set)
EnsureUser(res, user) ==
    IF user \in DOMAIN res THEN res
    ELSE [u \in DOMAIN res \cup {user} |-> IF u = user THEN <<>> ELSE res[u]]

\* The body of "if filter.matches(change):", m being what matches() gave.
\* The user has been given an entry by the time the changeset id is read.
FilterMatched(st, ch, ui, f, m) ==
    IF ~m.out.ok
    THEN [ok |-> FALSE, res |-> st.res, ids |-> m.ids, err |-> m.out.err]
    ELSE IF ~Truthy(m.out.val) THEN Running(st.res, m.ids)
    ELSE IF ~ChangesetId(ch).ok
    THEN [ok |-> FALSE, res |-> EnsureUser(st.res, UserInterests[ui].user_id),
          ids |-> m.ids, err |-> ChangesetId(ch).err]
    ELSE Running(Record(EnsureUser(st.res, UserInterests[ui].user_id),
                        UserInterests[ui].user_id,
                        Explanation(f), ChangesetId(ch).val),
                 m.ids)

\* One pass of "for filter in user_filter.filters" from the state st
FilterStep(st, ch, ui, f) ==
    IF ~st.ok THEN st
    ELSE FilterMatched(st, ch, ui, f, Matches(f, ch, st.ids))

\* "for filter in user_filter.filters", over the first n filters
RECURSIVE FoldFilters(_, _, _, _)
FoldFilters(st0, ch, ui, n) ==
    IF n = 0 THEN st0
    ELSE FilterStep(FoldFilters(st0, ch, ui, n - 1), ch, ui,
                    UserInterests[ui].filters[n])

\* "for user_filter in user_filters", over the first n users
RECURSIVE FoldUsers(_, _, _)
FoldUsers(st0, ch, n) ==
    IF n = 0 THEN st0
    ELSE FoldFilters(FoldUsers(st0, ch, n - 1), ch, n,
                     Len(UserInterests[n].filters))

\* "for change in changes", over the first n changes
RECURSIVE FoldChanges(_, _, _)
FoldChanges(st0, chs, n) ==
    IF n = 0 THEN st0
    ELSE FoldUsers(FoldChanges(st0, chs, n - 1), chs[n], Len(UserInterests))

\* The aggregation of one container, from an empty result
Aggregate(chs, ids) == FoldChanges(Running(<<>>, ids), chs, Len(chs))

-----------------------------------------------------------------------------
(* Specification SpecWork: work() takes one container after another *)

\* Most changes in a container
MaxChanges == 2

\* Most containers taken
MaxRounds == 2

\* A node of the given uid and changeset at the given place
Placed(uid, changeset, lat, lon) ==
    [Full("node") EXCEPT !.attrib.uid = Some(uid),
                         !.attrib.changeset = Some(changeset),
                         !.attrib.lat = Some(lat), !.attrib.lon = Some(lon)]

\* The <action> elements of the containers of the model: nodes inside and
\* outside the Twin Cities box, by the users 7 and 9, in the changesets 55
\* and 56, and a deletion whose new object is a bare stub.
WorkEntries ==
    { Entry(Some("create"), None, Some(Placed("7", "55", "45.0", "-93.0"))),
      Entry(Some("create"), None, Some(Placed("9", "56", "0", "0"))),
      Entry(Some("modify"), Some(Placed("7", "55", "45.0", "-93.0")),
                            Some(Placed("9", "55", "45.0", "-93.0"))),
      Entry(Some("modify"), Some(Placed("9", "56", "0", "0")),
                            Some(Placed("7", "55", "45.0", "-93.0"))),
      Entry(Some("delete"), Some(Placed("7", "55", "45.0", "-93.0")),
                            Some(Stub("node", "1"))) }

\* seqn_to_start
seqn_to_start == 6510021

\* What a.retrieve(clear_cache=True) returns: the HTTP status of the answer,
\* 200 for a diff that was produced and 404 for one that is not there yet.
RetrieveStatuses == {200, 404}

\* What a.retrieve(clear_cache=True) leaves in the diff: the actions of the
\* answer when the status is 200, and nothing otherwise.
Retrieved(status) ==
    IF status = 200 THEN SeqsUpTo(WorkEntries, MaxChanges) ELSE {<<>>}

InitWork ==
    /\ pc = "running"
    /\ round = 0
    /\ seqn = seqn_to_start /\ delivered = <<>> /\ retries = 0
    /\ user_ids = {}
    /\ ids_before = user_ids
    /\ interesting_changesets_by_user = Idle
    /\ changes = Idle
    /\ prev_ids = {} /\ hits = <<>>
    /\ action_elem = Idle /\ filt = Idle /\ change = Idle /\ ret = Idle
    /\ doc = Idle /\ container = Idle
    /\ elem = Idle /\ obj = Idle /\ geo = Idle

\* One pass of the loop of work(): a container is retrieved and flattened,
\* its changeset ids are gathered (line 90), their metadata is fetched (the
\* request may fail, line 110) and the matches are aggregated (from line
\* 117, the filters being called at line 121).  An exception ends work();
\* pc then names the line that raised it.
\* The sequence number moves on as soon as retrieve() has returned, whatever
\* status it returned.
WorkIteration ==
    /\ pc = "running"
    /\ round < MaxRounds
    /\ \E status \in RetrieveStatuses, http_ok \in BOOLEAN :
      \E d \in Retrieved(status) :
        \E c \in {ChangeContainerFromElement(d)} :
            /\ c.ok
            /\ seqn' = seqn + 1
            /\ delivered' = Append(delivered, [seqn |-> seqn, status |-> status])
            /\ \E chs \in {Flatten(AugmentedDiff(c.val))} :
                /\ round' = round + 1
                /\ changes' = chs
                /\ ids_before' = user_ids
                /\ IF ~GatherChangesets(chs).ok
                   THEN /\ pc' = "raised at 90"
                        /\ UNCHANGED <<interesting_changesets_by_user, user_ids>>
                   ELSE IF ~http_ok
                   THEN /\ pc' = "raised at 110"
                        /\ UNCHANGED <<interesting_changesets_by_user, user_ids>>
                   ELSE \E agg \in {Aggregate(chs, user_ids)} :
                        IF ~agg.ok
                        THEN /\ pc' = "raised at 121"
                             /\ user_ids' = agg.ids
                             /\ UNCHANGED interesting_changesets_by_user
                        ELSE /\ pc' = "running"
                             /\ user_ids' = agg.ids
                             /\ interesting_changesets_by_user' = agg.res
    /\ UNCHANGED <<decodeVars, objectVars, filt, change, ret, prev_ids, hits,
                   action_elem, retries>>

NextWork == WorkIteration

SpecWork == InitWork /\ [][NextWork]_vars

\* The Action that holds the action, old and new of a flattened change
AsAction(ch) ==
    [oid |-> <<>>, action |-> ch.tuple[1], old |-> ch.tuple[2],
     new |-> ch.tuple[3]]

\* The filter at place f of user u matches change k of the last container:
\* what its matches() returns on the Action of that change.
MatchedInContainer(u, f, k) ==
    LET m == Matches(UserInterests[u].filters[f], AsAction(changes[k]), {})
    IN  m.out.ok /\ Truthy(m.out.val)

\* The changeset ids the last result holds for a user under an explanation
Reported(user, explanation) ==
    IF user \in DOMAIN interesting_changesets_by_user
       /\ explanation \in DOMAIN interesting_changesets_by_user[user]
    THEN interesting_changesets_by_user[user][explanation]
    ELSE {}

\* C10: a container whose changesets were gathered and fetched is
\* aggregated, and the result then holds changeset c for a user under an
\* explanation exactly when a filter of that user with that explanation
\* matched an action of that container whose changeset is c; what earlier
\* containers recorded is not in it.
C10_ResultIsThisContainersMatches ==
    (round > 0 /\ pc \notin {"raised at 90", "raised at 110"}) =>
        /\ pc = "running"
        /\ \A user \in DOMAIN interesting_changesets_by_user :
              \E u \in 1..Len(UserInterests) :
                 /\ UserInterests[u].user_id = user
                 /\ \A e \in DOMAIN interesting_changesets_by_user[user] :
                       \E f \in 1..Len(UserInterests[u].filters) :
                          Explanation(UserInterests[u].filters[f]) = e
        /\ \A u \in 1..Len(UserInterests) :
            \A f \in 1..Len(UserInterests[u].filters) :
                LET e == Explanation(UserInterests[u].filters[f])
                IN  Reported(UserInterests[u].user_id, e) =
                        {changes[k].tuple[3][1].changeset[1] :
                            k \in {k \in 1..Len(changes) :
                                     \E g \in 1..Len(UserInterests[u].filters) :
                                        /\ Explanation(UserInterests[u].filters[g]) = e
                                        /\ MatchedInContainer(u, g, k)}}

-----------------------------------------------------------------------------
(* Specification SpecStream: the two drivers of the diff stream,            *)
(* stream_adiff() of src/src/adiff.py and the loop of work()                *)

\* Most containers stream_adiff yields
MaxYields == 3

\* Most 404 answers in a row to one request
MaxRetries == 2

\* The seqn stream_adiff is started with
StartSeqns == {1, seqn_to_start}

\* resp.status_code: the diff is there, is not there yet, or the server failed
StreamStatuses == {200, 404, 500}

\* The <action> children of the documents the service answers with
StreamDocs == SeqsUpTo(DecodeEntries, 1)

InitStream ==
    /\ pc = "fetch"
    /\ seqn \in StartSeqns
    /\ delivered = <<>>
    /\ retries = 0
    /\ container = Idle /\ doc = Idle
    /\ elem = Idle /\ obj = Idle /\ geo = Idle
    /\ filt = Idle /\ change = Idle /\ ret = Idle
    /\ user_ids = {} /\ prev_ids = {} /\ hits = <<>> /\ action_elem = Idle
    /\ interesting_changesets_by_user = Idle /\ changes = Idle
    /\ ids_before = {} /\ round = 0

\* One pass of the loop of stream_adiff: the document of seqn is requested.
\* A 404 is waited out and the same seqn is requested again; any other
\* failure status raises out of the generator, and so does a document that
\* does not decode; a decoded container is yielded.
StreamFetch ==
    /\ pc = "fetch"
    /\ Len(delivered) < MaxYields
    /\ \E status \in StreamStatuses :
        IF status = 404
        THEN /\ retries < MaxRetries
             /\ retries' = retries + 1
             /\ UNCHANGED <<pc, seqn, delivered, doc, container>>
        ELSE IF status # 200
        THEN /\ pc' = "raised"
             /\ container' = Raise("HTTPError")
             /\ retries' = 0
             /\ UNCHANGED <<seqn, delivered, doc>>
        ELSE \E d \in StreamDocs :
             \E c \in {ChangeContainerFromElement(d)} :
                /\ doc' = d
                /\ container' = c
                /\ retries' = 0
                /\ pc' = IF c.ok THEN "yielded" ELSE "raised"
                /\ delivered' = IF c.ok
                                THEN Append(delivered,
                                            [seqn |-> seqn, status |-> status])
                                ELSE delivered
                /\ UNCHANGED seqn
    /\ UNCHANGED <<objectVars, filterVars, workVars>>

\* The consumer asks for the next container: the generator resumes after
\* its yield and moves to the next sequence number.
StreamResume ==
    /\ pc = "yielded"
    /\ seqn' = seqn + 1
    /\ pc' = "fetch"
    /\ UNCHANGED <<delivered, retries, decodeVars, objectVars, filterVars,
                   workVars>>

NextStream == StreamFetch \/ StreamResume \/ WorkIteration

SpecStream == (InitStream \/ InitWork) /\ [][NextStream]_vars

(* Claims on the drivers *)

\* C11: the driver hands containers on in increasing sequence-number order
\* without gaps, and a sequence number is left behind only once its own
\* container has been handed on: every container handed on came with status
\* 200, each one's number is one more than the one before, and the driver is
\* at the number of the last container or at the one after it.
C11_ConsecutiveAndNeverSkipped ==
    /\ \A i \in 1..Len(delivered) : delivered[i].status = 200
    /\ \A i \in 1..(Len(delivered) - 1) :
           delivered[i + 1].seqn = delivered[i].seqn + 1
    /\ Len(delivered) > 0 =>
           seqn \in {delivered[Len(delivered)].seqn,
                     delivered[Len(delivered)].seqn + 1}

====
